---- MODULE Spec2Model ----
(***************************************************************************)
(* The three WebSocket voice-assistant servers of the repository:          *)
(*   "server"   src/server.js                                              *)
(*   "part_000" src/unnamed/part_000                                       *)
(*   "part_001" src/unnamed/part_001                                       *)
(* One behaviour runs one of the three programs (variable variant).        *)
(* Every handler is cut at its awaits: the code between two awaits runs    *)
(* to completion on the event loop and is one action.                      *)
(***************************************************************************)
EXTENDS Integers, Sequences, FiniteSets, TLC

\* ------------------------------------------------------------------ bounds
\* transport events (inbound frames, 'error', 'close') a behaviour may see,
\* all sockets together
MaxEvents == 3

\* ---------------------------------------------------------------- universe
Variants == {"server", "part_000", "part_001"}
AllSockets == {1, 2}
\* connection ids (server.js:56): a random string is named by the first socket
\* that drew it, so a socket draws its own number (a fresh string) or the id
\* of an earlier socket (Math.random repeating itself)
IdSpace == AllSockets
NoId == 0
\* an absent Map entry
Absent == 0
\* chat handle: null / undefined
NoChat == 0

VARIABLES
    variant,            \* which program runs
    sockets,            \* the sockets that may connect in this behaviour
    readyState,         \* ws.readyState of each socket: "none" before connect
    clock,              \* number of transport events handled so far
    received,           \* log: for each transport event, the state it met
    sent,               \* per socket: the frames handed to ws.send, in order
    tasks,              \* suspended handlers and pending timers
    \* src/server.js
    connectionId,       \* per socket: const connectionId
    activeConnections,  \* Map connectionId -> connection object
    connection,         \* the connection objects, named by creating socket
    \* src/unnamed/part_000
    sessions,           \* Map ws -> VoiceSession: the sockets with an entry
    session,            \* the VoiceSession objects
    \* src/unnamed/part_001
    liveSession,        \* per connection closure: let liveSession
    isSessionActive     \* per connection closure: let isSessionActive

vars == <<variant, sockets, readyState, clock, received, sent, tasks,
          connectionId, activeConnections, connection,
          sessions, session, liveSession, isSessionActive>>

serverVars == <<connectionId, activeConnections, connection>>
part0Vars == <<sessions, session>>
part1Vars == <<liveSession, isSessionActive>>

\* ----------------------------------------------------------------- helpers
\* a frame handed to ws.send by the handler of inbound frame m (0: none)
Frame(w, type, m) == [type |-> type, msg |-> m, rs |-> readyState[w]]

Send(w, frames) == sent' = [sent EXCEPT ![w] = @ \o frames]

\* provider calls (chat.sendMessage) of socket w that have not settled
Calls(w) == {t \in tasks : t.ws = w /\ t.pc = "call"}
\* speaking timers (setTimeout) of socket w that have not fired
Timers(w) == {t \in tasks : t.ws = w /\ t.pc = "timer"}

\* the transport event is logged with the state it met
Log(w, type, speaking, active) ==
    /\ clock' = clock + 1
    /\ received' = Append(received,
          [ws |-> w, type |-> type, speaking |-> speaking, active |-> active,
           calls |-> {t.id : t \in Calls(w)},
           timers |-> {t.id : t \in Timers(w)}])

CanReceive(w) == readyState[w] = "open" /\ clock < MaxEvents
CanClose(w) == readyState[w] \in {"open", "closing"} /\ clock < MaxEvents

\* a suspended handler: the inbound frame it serves, its socket, where it
\* waits, the connection object and the chat handle it holds
Task(m, w, kind, pc, conn, chat) ==
    [id |-> m, ws |-> w, kind |-> kind, pc |-> pc, conn |-> conn, chat |-> chat]

\* (mutant) an unknown type tag is reported like a frame that does not parse
DecodeFailureFrames_always(w, type, m) == <<Frame(w, "error", m)>>
\* ws.on('message') for a frame that starts no handler: JSON.parse throws
\* into the catch, which sends an error frame; an unknown type tag falls to
\* the default case (no case in part_001), which sends nothing
DecodeFailureFrames(w, type, m) ==
    IF type = "malformed" THEN <<Frame(w, "error", m)>> ELSE <<>>

\* transport events are numbered in the order they are handled; a handler
\* and its timer are named by the number of the frame they serve
EventIds == 1..MaxEvents
Pending(m) == \E t \in tasks : t.id = m
TaskOf(m) == CHOOSE t \in tasks : t.id = m

\* the handlers suspended at an await whose promise is already resolved:
\* await simulateSTT(...) in server.js (an async function without a timer)
\* and await endLiveSession(...) in part_001. They resume from the microtask
\* queue in the order they were suspended, before the event loop runs a
\* timer, a provider reply or a socket event; only the frames of a chunk
\* that is being dispatched are handled before them
Resuming == {t \in tasks : t.pc \in {"stt", "await"}}
NextToResume(m) == \A u \in Resuming : u.id >= m
EventLoopIdle == Resuming = {}

\* ------------------------------------------------------------------- Init
NewConnection == [isListening |-> FALSE, isSpeaking |-> FALSE, chat |-> NoChat]
NewVoiceSession == [chat |-> NoChat, isActive |-> FALSE, history |-> <<>>]

InitWith(S) ==
    /\ variant \in Variants
    /\ sockets = S
    /\ readyState = [w \in AllSockets |-> "none"]
    /\ clock = 0
    /\ received = <<>>
    /\ sent = [w \in AllSockets |-> <<>>]
    /\ tasks = {}
    /\ connectionId = [w \in AllSockets |-> NoId]
    /\ activeConnections = [k \in IdSpace |-> Absent]
    /\ connection = [w \in AllSockets |-> NewConnection]
    /\ sessions = {}
    /\ session = [w \in AllSockets |-> NewVoiceSession]
    /\ liveSession = [w \in AllSockets |-> NoChat]
    /\ isSessionActive = [w \in AllSockets |-> FALSE]

Init == InitWith({1})

\* ============================================================ src/server.js
\* the connection object the handler of socket w finds in the registry
Lookup(w) == activeConnections[connectionId[w]]

\* the state a transport event of socket w meets in server.js
server_speaking(w) ==
    IF Lookup(w) = Absent THEN FALSE ELSE connection[Lookup(w)].isSpeaking
server_active(w) ==
    IF Lookup(w) = Absent THEN FALSE ELSE connection[Lookup(w)].chat # NoChat

\* wss.on('connection')
server_onConnection(w) ==
    /\ variant = "server"
    /\ EventLoopIdle
    /\ w \in sockets
    /\ readyState[w] = "none"
    /\ \E k \in {w} \cup ({connectionId[v] : v \in AllSockets} \ {NoId}) :
          /\ connectionId' = [connectionId EXCEPT ![w] = k]
          /\ activeConnections' = [activeConnections EXCEPT ![k] = w]
    /\ connection' = [connection EXCEPT ![w] = NewConnection]
    /\ readyState' = [readyState EXCEPT ![w] = "open"]
    /\ UNCHANGED <<variant, sockets, clock, received, sent, tasks,
                   part0Vars, part1Vars>>

\* case 'start_conversation': handleStartConversation up to its await
server_handleStartConversation(w) ==
    /\ variant = "server"
    /\ CanReceive(w)
    /\ LET c == Lookup(w)
           m == clock + 1
       IN IF c = Absent
          THEN \* connection.model = ... throws, caught at line 156
               /\ Log(w, "start", FALSE, FALSE)
               /\ Send(w, <<Frame(w, "error", m)>>)
               /\ UNCHANGED <<tasks, connection>>
          ELSE /\ Log(w, "start", server_speaking(w), server_active(w))
               /\ connection' = [connection EXCEPT ![c] =
                     [isListening |-> TRUE, isSpeaking |-> TRUE, chat |-> m]]
               /\ Send(w, <<Frame(w, "conversation_started", m)>>)
               /\ tasks' = tasks \cup
                     {Task(m, w, "greeting", "call", c, m)}
    /\ UNCHANGED <<variant, sockets, readyState, connectionId,
                   activeConnections, part0Vars, part1Vars>>

\* handleStartConversation after await connection.chat.sendMessage(greeting)
server_greetingResolved(m) ==
    /\ variant = "server"
    /\ EventLoopIdle
    /\ Pending(m)
    /\ LET t == TaskOf(m) IN
          /\ t.kind = "greeting" /\ t.pc = "call"
          /\ Send(t.ws, <<Frame(t.ws, "ai_response", t.id)>>)
          /\ tasks' = (tasks \ {t}) \cup {[t EXCEPT !.pc = "timer"]}
          /\ UNCHANGED <<variant, sockets, readyState, clock, received,
                         serverVars, part0Vars, part1Vars>>

\* the greeting's sendMessage rejects: catch at line 156
server_greetingRejected(m) ==
    /\ variant = "server"
    /\ EventLoopIdle
    /\ Pending(m)
    /\ LET t == TaskOf(m) IN
          /\ t.kind = "greeting" /\ t.pc = "call"
          /\ Send(t.ws, <<Frame(t.ws, "error", t.id)>>)
          /\ tasks' = tasks \ {t}
          /\ UNCHANGED <<variant, sockets, readyState, clock, received,
                         serverVars, part0Vars, part1Vars>>

\* the natural interruption of handleAudioData, lines 177-184:
\* the connection object after it, and the frames it sends
InterruptedConnection(c) == [connection[c] EXCEPT !.isSpeaking = FALSE]
\* (mutant) the isSpeaking test of line 178 negated
InterruptFrames_negated(w, c, m) ==
    IF ~connection[c].isSpeaking THEN <<Frame(w, "natural_interrupt", m)>>
                                 ELSE <<>>
InterruptFrames(w, c, m) ==
    IF connection[c].isSpeaking THEN <<Frame(w, "natural_interrupt", m)>>
                                ELSE <<>>

\* case 'audio_data': handleAudioData up to await simulateSTT(audioData)
server_handleAudioData(w) ==
    /\ variant = "server"
    /\ CanReceive(w)
    /\ LET c == Lookup(w)
           m == clock + 1
       IN IF c = Absent
          THEN /\ Log(w, "audio", FALSE, FALSE)
               /\ Send(w, <<Frame(w, "error", m)>>)
               /\ UNCHANGED <<tasks, connection>>
          ELSE /\ Log(w, "audio", server_speaking(w), server_active(w))
               /\ IF connection[c].chat = NoChat
                  THEN /\ Send(w, <<Frame(w, "error", m)>>)
                       /\ UNCHANGED <<tasks, connection>>
                  ELSE /\ connection' =
                            [connection EXCEPT ![c] = InterruptedConnection(c)]
                       /\ Send(w, InterruptFrames(w, c, m))
                       /\ tasks' = tasks \cup
                            {Task(m, w, "audio", "stt", c, NoChat)}
    /\ UNCHANGED <<variant, sockets, readyState, connectionId,
                   activeConnections, part0Vars, part1Vars>>

\* handleAudioData after await simulateSTT: connection.chat.sendMessage(...)
\* is evaluated now; a chat set to null meanwhile throws into the catch
server_simulateSTTResolved(m) ==
    /\ variant = "server"
    /\ NextToResume(m)
    /\ Pending(m)
    /\ LET t == TaskOf(m) IN
          /\ t.kind = "audio" /\ t.pc = "stt"
          /\ IF connection[t.conn].chat = NoChat
             THEN /\ Send(t.ws, <<Frame(t.ws, "error", t.id)>>)
                  /\ tasks' = tasks \ {t}
             ELSE /\ tasks' = (tasks \ {t}) \cup
                       {[t EXCEPT !.pc = "call", !.chat = connection[t.conn].chat]}
                  /\ UNCHANGED sent
          /\ UNCHANGED <<variant, sockets, readyState, clock, received,
                         serverVars, part0Vars, part1Vars>>

\* lines 204-205 of handleAudioData: the connection object once the reply is in
SpeakingConnection(c) == [connection[c] EXCEPT !.isSpeaking = TRUE]

\* handleAudioData after await connection.chat.sendMessage(transcribedText)
server_sendMessageResolved(m) ==
    /\ variant = "server"
    /\ EventLoopIdle
    /\ Pending(m)
    /\ LET t == TaskOf(m) IN
          /\ t.kind = "audio" /\ t.pc = "call"
          /\ connection' = [connection EXCEPT ![t.conn] = SpeakingConnection(t.conn)]
          /\ Send(t.ws, <<Frame(t.ws, "ai_response", t.id)>>)
          /\ tasks' = (tasks \ {t}) \cup {[t EXCEPT !.pc = "timer"]}
          /\ UNCHANGED <<variant, sockets, readyState, clock, received,
                         connectionId, activeConnections, part0Vars, part1Vars>>

\* (mutant) the catch of handleAudioData only logs the failure
server_sendMessageRejected_silent(m) ==
    /\ variant = "server"
    /\ EventLoopIdle
    /\ Pending(m)
    /\ LET t == TaskOf(m) IN
          /\ t.kind = "audio" /\ t.pc = "call"
          /\ tasks' = tasks \ {t}
          /\ UNCHANGED <<variant, sockets, readyState, clock, received, sent,
                         serverVars, part0Vars, part1Vars>>

\* the sendMessage of handleAudioData rejects: catch at line 226
server_sendMessageRejected(m) ==
    /\ variant = "server"
    /\ EventLoopIdle
    /\ Pending(m)
    /\ LET t == TaskOf(m) IN
          /\ t.kind = "audio" /\ t.pc = "call"
          /\ Send(t.ws, <<Frame(t.ws, "error", t.id)>>)
          /\ tasks' = tasks \ {t}
          /\ UNCHANGED <<variant, sockets, readyState, clock, received,
                         serverVars, part0Vars, part1Vars>>

\* the setTimeout callbacks of lines 147-154 and 217-224
server_speakingTimer(m) ==
    /\ variant = "server"
    /\ EventLoopIdle
    /\ Pending(m)
    /\ LET t == TaskOf(m) IN
          /\ t.pc = "timer"
          /\ tasks' = tasks \ {t}
          /\ IF connection[t.conn].isSpeaking
             THEN /\ connection' = [connection EXCEPT ![t.conn].isSpeaking = FALSE]
                  /\ Send(t.ws, <<Frame(t.ws, "ai_finished_speaking", t.id)>>)
             ELSE UNCHANGED <<connection, sent>>
          /\ UNCHANGED <<variant, sockets, readyState, clock, received,
                         connectionId, activeConnections, part0Vars, part1Vars>>

\* case 'natural_interrupt': handleNaturalInterrupt is not defined in
\* server.js (only handleInterrupt is), so the call throws a ReferenceError
\* into the catch of line 84
server_handleNaturalInterrupt(w) ==
    /\ variant = "server"
    /\ CanReceive(w)
    /\ Log(w, "interrupt", server_speaking(w), server_active(w))
    /\ Send(w, <<Frame(w, "error", clock + 1)>>)
    /\ UNCHANGED <<variant, sockets, readyState, tasks,
                   serverVars, part0Vars, part1Vars>>

\* case 'end_conversation': handleEndConversation
server_handleEndConversation(w) ==
    /\ variant = "server"
    /\ CanReceive(w)
    /\ LET c == Lookup(w)
       IN IF c = Absent
          THEN /\ Log(w, "end", FALSE, FALSE)
               /\ UNCHANGED connection
          ELSE /\ Log(w, "end", server_speaking(w), server_active(w))
               /\ connection' = [connection EXCEPT
                     ![c].isListening = FALSE, ![c].chat = NoChat]
    /\ Send(w, <<Frame(w, "conversation_ended", clock + 1)>>)
    /\ UNCHANGED <<variant, sockets, readyState, tasks, connectionId,
                   activeConnections, part0Vars, part1Vars>>

\* ws.on('message') of server.js for a frame that starts no handler:
\* JSON.parse throws (error frame) or the type is unknown (log only)
server_onOtherMessage(w) ==
    /\ variant = "server"
    /\ CanReceive(w)
    /\ \E type \in {"malformed", "unknown"} :
          /\ Log(w, type, server_speaking(w), server_active(w))
          /\ Send(w, DecodeFailureFrames(w, type, clock + 1))
    /\ UNCHANGED <<variant, sockets, readyState, tasks,
                   serverVars, part0Vars, part1Vars>>

\* ws.on('close')
server_onClose(w) ==
    /\ variant = "server"
    /\ EventLoopIdle
    /\ CanClose(w)
    /\ Log(w, "close", server_speaking(w), server_active(w))
    /\ readyState' = [readyState EXCEPT ![w] = "closed"]
    /\ activeConnections' = [activeConnections EXCEPT ![connectionId[w]] = Absent]
    /\ UNCHANGED <<variant, sockets, sent, tasks,
                   connectionId, connection, part0Vars, part1Vars>>

\* ws.on('error'): the socket is being torn down, 'close' follows
server_onError(w) ==
    /\ variant = "server"
    /\ EventLoopIdle
    /\ CanReceive(w)
    /\ Log(w, "error", server_speaking(w), server_active(w))
    /\ readyState' = [readyState EXCEPT ![w] = "closing"]
    /\ activeConnections' = [activeConnections EXCEPT ![connectionId[w]] = Absent]
    /\ UNCHANGED <<variant, sockets, sent, tasks,
                   connectionId, connection, part0Vars, part1Vars>>

serverNext ==
    \/ \E w \in AllSockets :
          \/ server_onConnection(w)
          \/ server_handleStartConversation(w)
          \/ server_handleAudioData(w)
          \/ server_handleNaturalInterrupt(w)
          \/ server_handleEndConversation(w)
          \/ server_onOtherMessage(w)
          \/ server_onClose(w)
          \/ server_onError(w)
    \/ \E m \in EventIds :
          \/ server_greetingResolved(m)
          \/ server_greetingRejected(m)
          \/ server_simulateSTTResolved(m)
          \/ server_sendMessageResolved(m)
          \/ server_sendMessageRejected(m)
          \/ server_speakingTimer(m)


\* ===================================================== src/unnamed/part_000
\* the VoiceSession accepts a turn: the guard of processAudio, line 103
part0_active(w) == session[w].isActive /\ session[w].chat # NoChat

\* wss.on('connection')
part0_onConnection(w) ==
    /\ variant = "part_000"
    /\ w \in sockets
    /\ readyState[w] = "none"
    /\ session' = [session EXCEPT ![w] = NewVoiceSession]
    /\ sessions' = sessions \cup {w}
    /\ readyState' = [readyState EXCEPT ![w] = "open"]
    /\ UNCHANGED <<variant, sockets, clock, received, sent, tasks,
                   serverVars, part1Vars>>

\* (mutant) startConversation creates the chat but leaves isActive false
part0_handleStartConversation_inactive(w) ==
    /\ variant = "part_000"
    /\ CanReceive(w)
    /\ Log(w, "start", FALSE, part0_active(w))
    /\ session' = [session EXCEPT ![w].chat = clock + 1, ![w].isActive = FALSE]
    /\ Send(w, <<Frame(w, "conversation_started", clock + 1)>>)
    /\ UNCHANGED <<variant, sockets, readyState, tasks, sessions,
                   serverVars, part1Vars>>

\* case 'start_conversation': handleStartConversation, startConversation
part0_handleStartConversation(w) ==
    /\ variant = "part_000"
    /\ CanReceive(w)
    /\ Log(w, "start", FALSE, part0_active(w))
    /\ session' = [session EXCEPT ![w].chat = clock + 1, ![w].isActive = TRUE]
    /\ Send(w, <<Frame(w, "conversation_started", clock + 1)>>)
    /\ UNCHANGED <<variant, sockets, readyState, tasks, sessions,
                   serverVars, part1Vars>>

\* case 'audio_data': handleAudioData, processAudio up to its await
part0_handleAudioData(w) ==
    /\ variant = "part_000"
    /\ CanReceive(w)
    /\ Log(w, "audio", FALSE, part0_active(w))
    /\ IF ~part0_active(w)
       THEN \* throw new Error('Conversation not active'), caught at line 234
            /\ Send(w, <<Frame(w, "error", clock + 1)>>)
            /\ UNCHANGED tasks
       ELSE /\ tasks' = tasks \cup
                 {Task(clock + 1, w, "audio", "call", w, session[w].chat)}
            /\ UNCHANGED sent
    /\ UNCHANGED <<variant, sockets, readyState, part0Vars,
                   serverVars, part1Vars>>

\* processAudio lines 131-135: this.history.push({type, timestamp, response}),
\* one entry for the exchange of user turn m, holding the reply only
AnsweredVoiceSession(w, m) == [session[w] EXCEPT !.history = Append(@, m)]

\* processAudio after await this.chat.sendMessage(...), then handleAudioData
part0_sendMessageResolved(m) ==
    /\ variant = "part_000"
    /\ Pending(m)
    /\ LET t == TaskOf(m) IN
          /\ t.pc = "call"
          /\ session' = [session EXCEPT ![t.conn] = AnsweredVoiceSession(t.conn, t.id)]
          /\ Send(t.ws, <<Frame(t.ws, "ai_response", t.id)>>)
          /\ tasks' = tasks \ {t}
          /\ UNCHANGED <<variant, sockets, readyState, clock, received,
                         sessions, serverVars, part1Vars>>

\* sendMessage rejects: rethrown at line 145, caught at line 234
part0_sendMessageRejected(m) ==
    /\ variant = "part_000"
    /\ Pending(m)
    /\ LET t == TaskOf(m) IN
          /\ t.pc = "call"
          /\ Send(t.ws, <<Frame(t.ws, "error", t.id)>>)
          /\ tasks' = tasks \ {t}
          /\ UNCHANGED <<variant, sockets, readyState, clock, received,
                         serverVars, part0Vars, part1Vars>>

\* case 'natural_interrupt': handleNaturalInterrupt
part0_handleNaturalInterrupt(w) ==
    /\ variant = "part_000"
    /\ CanReceive(w)
    /\ Log(w, "interrupt", FALSE, part0_active(w))
    /\ Send(w, <<Frame(w, "natural_interrupt_confirmed", clock + 1)>>)
    /\ UNCHANGED <<variant, sockets, readyState, tasks,
                   serverVars, part0Vars, part1Vars>>

\* VoiceSession.endConversation
EndedVoiceSession(w) == [session[w] EXCEPT !.chat = NoChat, !.isActive = FALSE]

\* case 'end_conversation': handleEndConversation
part0_handleEndConversation(w) ==
    /\ variant = "part_000"
    /\ CanReceive(w)
    /\ Log(w, "end", FALSE, part0_active(w))
    /\ session' = [session EXCEPT ![w] = EndedVoiceSession(w)]
    /\ Send(w, <<Frame(w, "conversation_ended", clock + 1)>>)
    /\ UNCHANGED <<variant, sockets, readyState, tasks, sessions,
                   serverVars, part1Vars>>

\* ws.on('message') of part_000 for a frame that starts no handler
part0_onOtherMessage(w) ==
    /\ variant = "part_000"
    /\ CanReceive(w)
    /\ \E type \in {"malformed", "unknown"} :
          /\ Log(w, type, FALSE, part0_active(w))
          /\ Send(w, DecodeFailureFrames(w, type, clock + 1))
    /\ UNCHANGED <<variant, sockets, readyState, tasks,
                   serverVars, part0Vars, part1Vars>>

\* ws.on('close')
part0_onClose(w) ==
    /\ variant = "part_000"
    /\ CanClose(w)
    /\ Log(w, "close", FALSE, part0_active(w))
    /\ readyState' = [readyState EXCEPT ![w] = "closed"]
    /\ IF w \in sessions
       THEN /\ session' = [session EXCEPT ![w] = EndedVoiceSession(w)]
            /\ sessions' = sessions \ {w}
       ELSE UNCHANGED <<session, sessions>>
    /\ UNCHANGED <<variant, sockets, sent, tasks, serverVars, part1Vars>>

\* ws.on('error'): logs only
part0_onError(w) ==
    /\ variant = "part_000"
    /\ CanReceive(w)
    /\ Log(w, "error", FALSE, part0_active(w))
    /\ readyState' = [readyState EXCEPT ![w] = "closing"]
    /\ UNCHANGED <<variant, sockets, sent, tasks,
                   serverVars, part0Vars, part1Vars>>

part0Next ==
    \/ \E w \in AllSockets :
          \/ part0_onConnection(w)
          \/ part0_handleStartConversation(w)
          \/ part0_handleAudioData(w)
          \/ part0_handleNaturalInterrupt(w)
          \/ part0_handleEndConversation(w)
          \/ part0_onOtherMessage(w)
          \/ part0_onClose(w)
          \/ part0_onError(w)
    \/ \E m \in EventIds :
          \/ part0_sendMessageResolved(m)
          \/ part0_sendMessageRejected(m)

\* ===================================================== src/unnamed/part_001
\* the guard of the audio_data, text_input and interrupt cases
part1_active(w) == liveSession[w] # NoChat /\ isSessionActive[w]

\* wss.on('connection')
part1_onConnection(w) ==
    /\ variant = "part_001"
    /\ EventLoopIdle
    /\ w \in sockets
    /\ readyState[w] = "none"
    /\ liveSession' = [liveSession EXCEPT ![w] = NoChat]
    /\ isSessionActive' = [isSessionActive EXCEPT ![w] = FALSE]
    /\ readyState' = [readyState EXCEPT ![w] = "open"]
    /\ UNCHANGED <<variant, sockets, clock, received, sent, tasks,
                   serverVars, part0Vars>>

\* case 'start_session': startLiveSession
part1_startLiveSession(w) ==
    /\ variant = "part_001"
    /\ CanReceive(w)
    /\ Log(w, "start", FALSE, part1_active(w))
    /\ liveSession' = [liveSession EXCEPT ![w] = clock + 1]
    /\ isSessionActive' = [isSessionActive EXCEPT ![w] = TRUE]
    /\ Send(w, <<Frame(w, "session_started", clock + 1)>>)
    /\ UNCHANGED <<variant, sockets, readyState, tasks, serverVars, part0Vars>>

\* case 'audio_data': handleAudioData
part1_handleAudioData(w) ==
    /\ variant = "part_001"
    /\ CanReceive(w)
    /\ Log(w, "audio", FALSE, part1_active(w))
    /\ Send(w, IF part1_active(w)
               THEN <<Frame(w, "processing_audio", clock + 1)>> ELSE <<>>)
    /\ UNCHANGED <<variant, sockets, readyState, tasks,
                   serverVars, part0Vars, part1Vars>>

\* case 'text_input': handleTextInput up to await session.sendMessage(text)
part1_handleTextInput(w) ==
    /\ variant = "part_001"
    /\ CanReceive(w)
    /\ Log(w, "text", FALSE, part1_active(w))
    /\ tasks' = IF part1_active(w)
                THEN tasks \cup
                     {Task(clock + 1, w, "text", "call", w, liveSession[w])}
                ELSE tasks
    /\ UNCHANGED <<variant, sockets, readyState, sent,
                   serverVars, part0Vars, part1Vars>>

\* handleTextInput after its awaits
part1_sendMessageResolved(m) ==
    /\ variant = "part_001"
    /\ EventLoopIdle
    /\ Pending(m)
    /\ LET t == TaskOf(m) IN
          /\ t.kind = "text" /\ t.pc = "call"
          /\ Send(t.ws, <<Frame(t.ws, "text_response", t.id),
                          Frame(t.ws, "tts_request", t.id)>>)
          /\ tasks' = tasks \ {t}
          /\ UNCHANGED <<variant, sockets, readyState, clock, received,
                         serverVars, part0Vars, part1Vars>>

\* sendMessage rejects: catch at line 188
part1_sendMessageRejected(m) ==
    /\ variant = "part_001"
    /\ EventLoopIdle
    /\ Pending(m)
    /\ LET t == TaskOf(m) IN
          /\ t.kind = "text" /\ t.pc = "call"
          /\ Send(t.ws, <<Frame(t.ws, "error", t.id)>>)
          /\ tasks' = tasks \ {t}
          /\ UNCHANGED <<variant, sockets, readyState, clock, received,
                         serverVars, part0Vars, part1Vars>>

\* case 'end_session' up to await endLiveSession(liveSession)
part1_handleEndSession(w) ==
    /\ variant = "part_001"
    /\ CanReceive(w)
    /\ Log(w, "end", FALSE, part1_active(w))
    /\ IF liveSession[w] # NoChat
       THEN /\ isSessionActive' = [isSessionActive EXCEPT ![w] = FALSE]
            /\ tasks' = tasks \cup
                 {Task(clock + 1, w, "end", "await", w, liveSession[w])}
       ELSE UNCHANGED <<isSessionActive, tasks>>
    /\ UNCHANGED <<variant, sockets, readyState, sent, liveSession,
                   serverVars, part0Vars>>

\* case 'end_session' after the await: lines 73-74
part1_endLiveSessionResolved(m) ==
    /\ variant = "part_001"
    /\ NextToResume(m)
    /\ Pending(m)
    /\ LET t == TaskOf(m) IN
          /\ t.kind = "end" /\ t.pc = "await"
          /\ liveSession' = [liveSession EXCEPT ![t.ws] = NoChat]
          /\ isSessionActive' = [isSessionActive EXCEPT ![t.ws] = FALSE]
          /\ tasks' = tasks \ {t}
          /\ UNCHANGED <<variant, sockets, readyState, clock, received, sent,
                         serverVars, part0Vars>>

\* case 'interrupt': handleInterruption
part1_handleInterruption(w) ==
    /\ variant = "part_001"
    /\ CanReceive(w)
    /\ Log(w, "interrupt", FALSE, part1_active(w))
    /\ Send(w, IF part1_active(w)
               THEN <<Frame(w, "interruption_handled", clock + 1)>> ELSE <<>>)
    /\ UNCHANGED <<variant, sockets, readyState, tasks,
                   serverVars, part0Vars, part1Vars>>

\* ws.on('message') of part_001 for a frame that starts no handler
part1_onOtherMessage(w) ==
    /\ variant = "part_001"
    /\ CanReceive(w)
    /\ \E type \in {"malformed", "unknown"} :
          /\ Log(w, type, FALSE, part1_active(w))
          /\ Send(w, DecodeFailureFrames(w, type, clock + 1))
    /\ UNCHANGED <<variant, sockets, readyState, tasks,
                   serverVars, part0Vars, part1Vars>>

\* ws.on('close'): endLiveSession, not awaited
part1_onClose(w) ==
    /\ variant = "part_001"
    /\ EventLoopIdle
    /\ CanClose(w)
    /\ Log(w, "close", FALSE, part1_active(w))
    /\ readyState' = [readyState EXCEPT ![w] = "closed"]
    /\ isSessionActive' = IF liveSession[w] # NoChat
                          THEN [isSessionActive EXCEPT ![w] = FALSE]
                          ELSE isSessionActive
    /\ UNCHANGED <<variant, sockets, sent, tasks, liveSession,
                   serverVars, part0Vars>>

\* ws.on('error'): logs only
part1_onError(w) ==
    /\ variant = "part_001"
    /\ EventLoopIdle
    /\ CanReceive(w)
    /\ Log(w, "error", FALSE, part1_active(w))
    /\ readyState' = [readyState EXCEPT ![w] = "closing"]
    /\ UNCHANGED <<variant, sockets, sent, tasks,
                   serverVars, part0Vars, part1Vars>>

part1Next ==
    \/ \E w \in AllSockets :
          \/ part1_onConnection(w)
          \/ part1_startLiveSession(w)
          \/ part1_handleAudioData(w)
          \/ part1_handleTextInput(w)
          \/ part1_handleEndSession(w)
          \/ part1_handleInterruption(w)
          \/ part1_onOtherMessage(w)
          \/ part1_onClose(w)
          \/ part1_onError(w)
    \/ \E m \in EventIds :
          \/ part1_sendMessageResolved(m)
          \/ part1_sendMessageRejected(m)
          \/ part1_endLiveSessionResolved(m)

\* ============================================================ specification
Next == serverNext \/ part0Next \/ part1Next

Spec == Init /\ [][Next]_vars

\* ================================================================== claims
\* what the logs say
Events == 1..Len(received)
\* the positions in sent[w] of the frames of type `type` sent for event n
FramesOf(w, type, n) ==
    {i \in DOMAIN sent[w] : sent[w][i].type = type /\ sent[w][i].msg = n}
\* the positions in sent[w] of all frames sent for event n
FramesFor(w, n) == {i \in DOMAIN sent[w] : sent[w][i].msg = n}
\* event n is a frame of type `type`
Is(n, type) == received[n].type = type
\* an event of type `type` was handled on the socket of n before n
Earlier(n, type) ==
    \E m \in Events : m < n /\ received[m].ws = received[n].ws /\ Is(m, type)

\* --- C1 ---------------------------------------------------------------
\* user turns (audio_data) whose provider call was still outstanding when a
\* later audio_data arrived on the same connection
Superseded ==
    {m \in Events : /\ Is(m, "audio")
                    /\ \E n \in Events : Is(n, "audio") /\ m \in received[n].calls}

\* C1 (as claimed): in server.js and part_000 no ai_response frame is ever
\* sent for a user turn that was superseded by a later audio_data while its
\* provider call was outstanding.
C1_StaleReplyDropped ==
    variant \in {"server", "part_000"} =>
        \A w \in AllSockets : \A m \in Superseded :
            FramesOf(w, "ai_response", m) = {}

\* --- C2 ---------------------------------------------------------------
\* C2 (as claimed): in server.js every audio_data received while the
\* provider call of an earlier audio_data is outstanding is answered with a
\* natural_interrupt frame.
C2_SpeakingOnDispatch ==
    variant = "server" =>
        \A n \in Events :
            (Is(n, "audio") /\ \E m \in received[n].calls : Is(m, "audio"))
                => FramesOf(received[n].ws, "natural_interrupt", n) # {}

\* --- C3 ---------------------------------------------------------------
\* C3 (as claimed): in every reachable state of each variant a connection
\* has at most one provider call outstanding.
C3_OneCallInFlight ==
    \A w \in AllSockets : Cardinality(Calls(w)) <= 1

\* --- C4 ---------------------------------------------------------------
\* exactly one natural_interrupt frame has been sent for event n, and it
\* precedes every ai_response frame sent for n
InterruptedOnceFirst(n) ==
    LET w == received[n].ws IN
    /\ Cardinality(FramesOf(w, "natural_interrupt", n)) = 1
    /\ \A i \in FramesOf(w, "natural_interrupt", n) :
          \A j \in FramesOf(w, "ai_response", n) : i < j

\* C4 (as claimed): in server.js, whenever an audio_data is received while
\* isSpeaking is true, exactly one natural_interrupt frame is sent for it,
\* before the ai_response frame of that turn.
C4_InterruptWheneverSpeaking ==
    variant = "server" =>
        \A n \in Events :
            (Is(n, "audio") /\ received[n].speaking) => InterruptedOnceFirst(n)

\* C4 (amended): in server.js, whenever an audio_data is received while the
\* conversation is active (the chat handle is set) and isSpeaking is true,
\* exactly one natural_interrupt frame is sent for it, before the
\* ai_response frame of that turn.
C4_InterruptWhenActiveSpeaking ==
    variant = "server" =>
        \A n \in Events :
            (Is(n, "audio") /\ received[n].speaking /\ received[n].active)
                => InterruptedOnceFirst(n)

\* an audio_data met an active, speaking session and its reply was delivered
C4_Witness ==
    /\ variant = "server"
    /\ \E n \in Events :
          /\ Is(n, "audio") /\ received[n].speaking /\ received[n].active
          /\ FramesOf(received[n].ws, "ai_response", n) # {}

\* --- C5 ---------------------------------------------------------------
\* C5 (as claimed, for the frames it singles out): once the ended
\* acknowledgment has been sent, no handler or timer that was started by an
\* earlier inbound frame sends a frame on that connection any more.
C5_SilentAfterEnd ==
    \A w \in AllSockets : \A i, j \in DOMAIN sent[w] :
        (i < j /\ sent[w][i].type = "conversation_ended")
            => sent[w][j].msg > sent[w][i].msg

\* --- C6 ---------------------------------------------------------------
\* C6 (as claimed): in server.js no frame is handed to ws.send once the
\* close event of the connection has been handled.
C6_SilentAfterClose ==
    variant = "server" =>
        \A w \in AllSockets : \A i \in DOMAIN sent[w] : sent[w][i].rs # "closed"

\* --- C7 ---------------------------------------------------------------
\* C7 (as claimed): a second end on a connection is answered with exactly
\* one error frame and nothing else, and the connection has been sent
\* exactly one ended frame.
C7_EndIdempotent ==
    \A n \in Events :
        (Is(n, "end") /\ Earlier(n, "end")) =>
            LET w == received[n].ws IN
            /\ Cardinality(FramesFor(w, n)) = 1
            /\ Cardinality(FramesOf(w, "error", n)) = 1
            /\ Cardinality({i \in DOMAIN sent[w] :
                              sent[w][i].type = "conversation_ended"}) = 1

\* --- C8 ---------------------------------------------------------------
\* C8 (as claimed): a start received after end has been processed on the
\* connection creates no chat and sends no started frame; it is answered
\* with one error frame.
C8_EndedIsTerminal ==
    \A n \in Events :
        (Is(n, "start") /\ Earlier(n, "end")) =>
            LET w == received[n].ws IN
            /\ FramesOf(w, "conversation_started", n) = {}
            /\ FramesOf(w, "session_started", n) = {}
            /\ Cardinality(FramesOf(w, "error", n)) = 1

\* --- C9 ---------------------------------------------------------------
\* C9 (as claimed): in each variant a user turn received before any start
\* is answered with exactly one error frame and starts no provider call.
C9_TurnBeforeStart ==
    \A n \in Events :
        ((Is(n, "audio") \/ Is(n, "text")) /\ ~Earlier(n, "start")) =>
            LET w == received[n].ws IN
            /\ Cardinality(FramesFor(w, n)) = 1
            /\ Cardinality(FramesOf(w, "error", n)) = 1
            /\ ~Pending(n)

\* --- C10 --------------------------------------------------------------
\* replies whose speaking timer was still pending when a natural
\* interruption happened on the connection
InterruptedReplies ==
    {m \in Events :
        \E n \in Events : /\ Is(n, "audio")
                          /\ FramesOf(received[n].ws, "natural_interrupt", n) # {}
                          /\ m \in received[n].timers}

\* C10 (as claimed): in server.js the timer of a reply that was interrupted
\* never sends ai_finished_speaking (never ends a later speaking phase).
C10_StaleTimerSilent ==
    variant = "server" =>
        \A w \in AllSockets : \A m \in InterruptedReplies :
            FramesOf(w, "ai_finished_speaking", m) = {}

\* --- C11 --------------------------------------------------------------
\* the step settles the provider call of event m by a failure: the handler
\* suspended at sendMessage is gone and has set no timer
CallFails(m) ==
    /\ Pending(m) /\ TaskOf(m).pc = "call"
    /\ ~(Pending(m))'

\* C11 (as claimed): in server.js a step in which a provider call fails
\* sends exactly one error frame and leaves the session in Listening:
\* isSpeaking false and the chat handle set.
C11_FailureLeavesListening ==
    [][\A m \in EventIds :
          (variant = "server" /\ CallFails(m)) =>
              LET t == TaskOf(m) IN
              /\ sent'[t.ws] = Append(sent[t.ws], Frame(t.ws, "error", m))
              /\ ~connection'[t.conn].isSpeaking
              /\ connection'[t.conn].chat # NoChat]_vars

\* --- C12 --------------------------------------------------------------
\* the step handles an inbound frame of one of `types`
Handles(types) ==
    /\ Len(received') = Len(received) + 1
    /\ received'[Len(received')].type \in types

\* the session state, the registry and the connection are as before the step
SessionUntouched ==
    UNCHANGED <<readyState, tasks, connectionId, activeConnections, connection,
                sessions, session, liveSession, isSessionActive>>

\* the step hands exactly `frames` to ws.send on socket w and nothing else
SendsOnly(w, frames) ==
    sent' = [sent EXCEPT ![w] = @ \o frames]

InterruptAcks == {"interrupted", "natural_interrupt",
                  "natural_interrupt_confirmed", "interruption_handled"}

\* the session of socket w is active and the assistant is not speaking
Listening(w) ==
    CASE variant = "server"   -> server_active(w) /\ ~server_speaking(w)
      [] variant = "part_000" -> part0_active(w)
      [] variant = "part_001" -> part1_active(w)

\* C13 (as claimed): in each variant, an explicit interrupt received by an
\* active session causes exactly one interruption-acknowledgment frame and
\* no other frame, starts no provider call and leaves the session Listening.
C13_InterruptAcknowledged ==
    [][Handles({"interrupt"}) =>
          LET n == Len(received')
              e == received'[n] IN
          e.active =>
              /\ \E a \in InterruptAcks : SendsOnly(e.ws, <<Frame(e.ws, a, n)>>)
              /\ UNCHANGED tasks
              /\ \A w \in AllSockets : w = e.ws => Listening(w)']_vars

\* --- C14 --------------------------------------------------------------
\* the frame types that acknowledge the end of a conversation
EndedAcks == {"conversation_ended", "session_ended"}

\* the session of socket w is inactive and holds no chat handle
Ended(w) ==
    CASE variant = "server"   -> ~server_active(w)
      [] variant = "part_000" -> ~session[w].isActive /\ session[w].chat = NoChat
      [] variant = "part_001" -> ~isSessionActive[w] /\ liveSession[w] = NoChat

\* C14 (as claimed): in each variant, an end received by an active session
\* moves it to Ended (inactive, chat handle discarded) and causes exactly
\* one ended acknowledgment frame.
C14_EndEndsSession ==
    [][Handles({"end"}) =>
          LET n == Len(received')
              e == received'[n] IN
          e.active =>
              /\ \E a \in EndedAcks : SendsOnly(e.ws, <<Frame(e.ws, a, n)>>)
              /\ \A w \in AllSockets : w = e.ws => Ended(w)']_vars

\* --- C15 --------------------------------------------------------------
\* the registry holds the entry made for socket w at connect time
HasEntry(w) ==
    CASE variant = "server"   -> connectionId[w] # NoId /\ Lookup(w) = w
      [] variant = "part_000" -> w \in sessions
      [] OTHER                -> FALSE

\* an event of type `type` has been handled on socket w
Seen(w, type) == \E n \in Events : received[n].ws = w /\ Is(n, type)

\* C15 (as claimed, for connections without a transport error): in
\* server.js and part_000 the registry holds an entry for a connection if
\* and only if the connection is open and has not sent end.
C15_RegistryIffOpenNotEnded ==
    variant \in {"server", "part_000"} =>
        \A w \in AllSockets :
            ~Seen(w, "error") =>
                (HasEntry(w) <=> (readyState[w] = "open" /\ ~Seen(w, "end")))

\* --- C16 --------------------------------------------------------------
\* C16 (as claimed): in server.js and part_000, once a close event or an
\* error event of a connection has been handled, its session is ended and
\* its registry entry is removed.
C16_TransportFailureEnds ==
    variant \in {"server", "part_000"} =>
        \A w \in AllSockets :
            (Seen(w, "close") \/ Seen(w, "error")) => (~HasEntry(w) /\ Ended(w))

\* --- C17 --------------------------------------------------------------
\* the chat handle of the session of socket w (NoChat when it has none);
\* a handle is the id of the start event whose startChat created it, so a
\* changed handle is a fresh chat whose history holds none of the turns
\* exchanged before
ChatOf(w) ==
    CASE variant = "server" ->
             IF Lookup(w) = Absent THEN NoChat ELSE connection[Lookup(w)].chat
      [] variant = "part_000" -> session[w].chat
      [] variant = "part_001" -> liveSession[w]

\* C17 (as claimed): an inbound message other than end that is received
\* while the session is active (a second start in particular) leaves the
\* chat handle of the session, and with it the turns exchanged so far, in
\* place.
C17_ContextAppendOnly ==
    [][\A w \in AllSockets :
          (/\ Len(received') = Len(received) + 1
           /\ received'[Len(received')].ws = w
           /\ received'[Len(received')].type \notin {"end", "close", "error"}
           /\ received'[Len(received')].active)
          => ChatOf(w)' = ChatOf(w)]_vars

\* --- C18 --------------------------------------------------------------
\* the scheduling the claim assumes: the handler resumes from await
\* simulateSTT, and
\* the provider settles every chat.sendMessage of a user turn, by a reply
\* or by a failure
ProviderSettles ==
    \A m \in EventIds :
        /\ WF_vars(server_simulateSTTResolved(m))
        /\ WF_vars(server_sendMessageResolved(m) \/ server_sendMessageRejected(m))
        /\ WF_vars(part0_sendMessageResolved(m) \/ part0_sendMessageRejected(m))

FairSpec == Init /\ [][Next]_vars /\ ProviderSettles

\* event m is an audio_data frame that met an active session
Accepted(m) == m \in Events /\ Is(m, "audio") /\ received[m].active
\* the connection of event m was closed, or has sent end
Released(m) ==
    \/ readyState[received[m].ws] # "open"
    \/ Seen(received[m].ws, "end")
\* the positions of the terminal frames sent for event m
Terminal(m) ==
    FramesOf(received[m].ws, "ai_response", m)
        \cup FramesOf(received[m].ws, "error", m)

\* event m is an accepted audio_data of server.js or part_000 whose
\* connection is open and has sent no end
Awaited(m) ==
    IF m \in Events
    THEN variant \in {"server", "part_000"} /\ Accepted(m) /\ ~Released(m)
    ELSE FALSE
\* event m has exactly one terminal frame, or its connection was released
Answered(m) ==
    IF m \in Events
    THEN Released(m) \/ Cardinality(Terminal(m)) = 1
    ELSE FALSE
\* no accepted audio_data of server.js or part_000 has two terminal frames
AnsweredAtMostOnce ==
    variant \in {"server", "part_000"} =>
        \A m \in EventIds : Accepted(m) => Cardinality(Terminal(m)) <= 1

\* every audio_data awaited so far has been answered
AllAnswered == \A m \in EventIds : Awaited(m) => Answered(m)

StartedAcks == {"conversation_started", "session_started"}
\* the session of socket w accepts user turns
Accepting(w) ==
    CASE variant = "server" -> server_active(w)
      [] variant = "part_000" -> part0_active(w)
      [] variant = "part_001" -> part1_active(w)
\* the types of the events that take a connection out of Idle
LeavesIdle == {"start", "end", "close", "error"}
\* socket w is in Idle: connected, and no start, end, close or transport
\* error was handled on it
Idle(w) == readyState[w] = "open" /\ \A t \in LeavesIdle : ~Seen(w, t)
\* event n is a start that met its connection in Idle
IdleStart(n) ==
    /\ Is(n, "start")
    /\ \A j \in Events :
          (j < n /\ received[j].ws = received[n].ws) =>
              received[j].type \notin LeavesIdle
\* the events of the socket of n handled after n and before k
Between(n, k) ==
    {j \in Events : n < j /\ j < k /\ received[j].ws = received[n].ws}

\* the handler of a start received in Idle sends the started frame, and
\* nothing else, and leaves the session accepting user turns
StartActivates ==
    \A w \in AllSockets :
        (/\ Handles({"start"})
         /\ received'[Len(received')].ws = w
         /\ Idle(w))
        => /\ \E a \in StartedAcks :
                 sent'[w] = Append(sent[w], Frame(w, a, Len(received')))
           /\ Accepting(w)'
\* an audio_data that follows a start received in Idle, with no end, close
\* or transport error of the connection in between, met an active session
TurnAfterStartAccepted ==
    \A n \in Events : \A k \in Events :
        (/\ n < k /\ received[k].ws = received[n].ws
         /\ IdleStart(n) /\ Is(k, "audio")
         /\ \A j \in Between(n, k) :
                received[j].type \notin {"end", "close", "error"})
        => received[k].active

\* C19: in each variant a start received on a connection in Idle causes the
\* started frame to be sent as the first frame of the conversation and
\* activates the session, and a user turn received afterwards (before any
\* end, close or transport error) is accepted.
C19_StartActivates == [][StartActivates]_vars /\ []TurnAfterStartAccepted

\* a start received in Idle, answered by its started frame, and followed
\* by an audio_data that met an active session
C19_Witness ==
    \E n \in Events : \E k \in Events :
        /\ n < k /\ received[k].ws = received[n].ws
        /\ IdleStart(n) /\ Is(k, "audio") /\ received[k].active
        /\ Between(n, k) = {}
        /\ \E a \in StartedAcks : FramesOf(received[n].ws, a, n) # {}

\* --- C20 --------------------------------------------------------------
\* the server with two client connections
InitTwo == InitWith(AllSockets)
SpecTwo == InitTwo /\ [][Next]_vars

\* the registry entry the handlers of socket w find (Absent before connect)
RegistryEntry(w) ==
    IF connectionId[w] = NoId THEN Absent ELSE Lookup(w)
\* the session state of the connection of socket w and the frames sent on
\* its socket
SessionState(w) ==
    CASE variant = "server" -> <<RegistryEntry(w), connection[w], sent[w]>>
      [] variant = "part_000" -> <<w \in sessions, session[w], sent[w]>>
      [] variant = "part_001" -> <<liveSession[w], isSessionActive[w], sent[w]>>
\* the step is the connect, an inbound message, a close or transport error,
\* a provider reply or a timer of the connection of socket w
StepOf(w) ==
    \/ readyState'[w] # readyState[w]
    \/ Len(received') = Len(received) + 1 /\ received'[Len(received')].ws = w
    \/ {t \in tasks' : t.ws = w} # {t \in tasks : t.ws = w}

\* C20 (as claimed): a step of connection A leaves the session state of
\* every other connection B (isSpeaking, isListening / isActive, chat
\* handle, registry entry) unchanged and sends no frame on B's socket.
C20_SessionsIndependent ==
    [][\A b \in AllSockets : StepOf(b) \/ SessionState(b)' = SessionState(b)]_vars

\* --- C21 --------------------------------------------------------------
\* C21 (as claimed): in server.js the connection ids of two open
\* connections differ, and each open connection that has seen no transport
\* error finds its own connection object in the registry.
C21_ConnectionIdsUnique ==
    variant = "server" =>
        \A a \in AllSockets : \A b \in AllSockets :
            (a # b /\ readyState[a] = "open" /\ readyState[b] = "open")
            => /\ connectionId[a] # connectionId[b]
               /\ ~Seen(a, "error") => Lookup(a) = a

\* --- C22 --------------------------------------------------------------
\* the user turns of socket w that were accepted and answered
AnsweredTurns(w) ==
    {m \in Events : /\ received[m].ws = w /\ Is(m, "audio") /\ received[m].active
                    /\ FramesOf(w, "ai_response", m) # {}}
\* socket w has seen no interruption and no failure: no interrupt message,
\* no transport error and no error frame
Undisturbed(w) ==
    /\ \A n \in Events :
          received[n].ws = w =>
              received[n].type \notin {"interrupt", "natural_interrupt", "error"}
    /\ \A i \in DOMAIN sent[w] : sent[w][i].type # "error"

\* C22 (as claimed): in part_000, after N user turns were accepted and
\* answered with no interruption and no failure, the context stored by the
\* session holds 2N entries, a user turn and an assistant turn for each
\* exchange.
C22_ContextHoldsBothTurns ==
    variant = "part_000" =>
        \A w \in AllSockets :
            Undisturbed(w) =>
                Len(session[w].history) = 2 * Cardinality(AnsweredTurns(w))

\* --- C23 --------------------------------------------------------------
\* event n is the last start_session of its socket, and no end_session or
\* close of that socket was received after it
StartedSince(n) ==
    /\ Is(n, "start")
    /\ \A j \in Events :
          (n < j /\ received[j].ws = received[n].ws) =>
              received[j].type \notin {"start", "end", "close"}

\* C23 (as claimed): in part_001 the session created by a start_session
\* stays active (liveSession set, isSessionActive true) until a later
\* end_session or close is received, also when an end_session received
\* before that start resumes from its await afterwards.
C23_EndEndsOnlyItsSession ==
    variant = "part_001" =>
        \A n \in Events :
            StartedSince(n) =>
                /\ liveSession[received[n].ws] = n
                /\ isSessionActive[received[n].ws]

\* --- C24 --------------------------------------------------------------
\* C24 (as claimed): in server.js the ai_response frames of the user turns
\* of one connection are sent in the order in which their audio_data were
\* received, also when their provider calls overlap.
C24_RepliesInReceiveOrder ==
    variant = "server" =>
        \A m \in Events : \A n \in Events :
            (/\ m < n /\ received[m].ws = received[n].ws
             /\ Is(m, "audio") /\ Is(n, "audio"))
            => \A i \in FramesOf(received[m].ws, "ai_response", m) :
                   \A j \in FramesOf(received[n].ws, "ai_response", n) : i < j

\* --- C25 --------------------------------------------------------------
StopFrames == {"natural_interrupt", "ai_finished_speaking"}
\* the positions in sent[w] of the speaking-stop frames
Stops(w) == {i \in DOMAIN sent[w] : sent[w][i].type \in StopFrames}
\* the positions in sent[w] of the frames sent by the steps that set
\* isSpeaking to true: conversation_started (line 129 follows it) and the
\* ai_response of a user turn (line 205 precedes it); the ai_response of a
\* greeting sets nothing
Sets(w) ==
    {i \in DOMAIN sent[w] :
        \/ sent[w][i].type = "conversation_started"
        \/ sent[w][i].type = "ai_response" /\ Is(sent[w][i].msg, "audio")}
\* a step that sends a speaking-stop frame finds isSpeaking true on a
\* connection object and leaves it false
StopClearsSpeaking ==
    \A w \in AllSockets :
        (/\ Len(sent'[w]) > Len(sent[w])
         /\ \E i \in DOMAIN sent'[w] :
                i > Len(sent[w]) /\ sent'[w][i].type \in StopFrames)
        => \E c \in AllSockets :
               connection[c].isSpeaking /\ ~connection'[c].isSpeaking
\* on every socket two speaking-stop frames are separated by a frame of a
\* step that set isSpeaking, and the stops are no more than those steps
StopsSeparated ==
    \A w \in AllSockets :
        /\ \A i \in Stops(w) : \A j \in Stops(w) :
               i < j => \E k \in Sets(w) : i < k /\ k < j
        /\ Cardinality(Stops(w)) <= Cardinality(Sets(w))

\* C25: in server.js a natural_interrupt or ai_finished_speaking frame is
\* sent only by a step that finds isSpeaking true and sets it to false; on
\* every connection two such frames are separated by a start or a user
\* turn's ai_response, and they never outnumber those.
C25_NoSpuriousStop ==
    /\ [][variant = "server" => StopClearsSpeaking]_vars
    /\ [](variant = "server" => StopsSeparated)
====
